---- MODULE Spec2Model ----
(***************************************************************************)
(* Model of src/gameify/main.py: the orchestrator ssh_to_bastion (one SSH  *)
(* session, one remote command, one blocking wait, one SFTP transfer), the *)
(* remote bash script that main() builds (bootstrap of ~/.bashrc, seven    *)
(* check modules appending to one artifact file, a final Completion line)  *)
(* and the encoder that wraps the script into bash -c $'...'.              *)
(*                                                                         *)
(* A text file is a record [present, lines]; a line is a sequence of       *)
(* tokens (strings), the pieces the script concatenates into it.  A script *)
(* text for the encoder is a sequence of one-character strings.            *)
(***************************************************************************)
EXTENDS Integers, Sequences, FiniteSets, TLC

VARIABLES
    pc,        \* position of the local process (main / ssh_to_bastion)
    session,   \* ssh_client's connection: "none", "open", "closed"
    sftp,      \* sftp_client's channel: "none", "open", "closed"
    result,    \* value returned by ssh_to_bastion, [kind |-> "none"] before
    exitStatus,\* exit status of the local process, -1 while it runs
    floc,      \* the local file bastion_output_local.log
    rpc,       \* position of the remote bash process
    mod,       \* index of the next module the remote script runs
    rstatus,   \* exit status reported for the remote command, -1 if none
    artifact,  \* the remote file /home/<user>/tests/bastion_output.log
    bashrc,    \* the remote file ~/.bashrc
    lab,       \* the environment the checks look at: lab[i] is TRUE when
               \* what module i checks for is in place
    host,      \* the bastion host: whether jq is there, how the HTTPS API
               \* answers, the form of the response bodies
    hist,      \* history of the current run: stages done, as a record
    src, enc, dec  \* encoder: script text, encoded body, remote decoding

vars == <<pc, session, sftp, result, exitStatus, floc, rpc, mod, rstatus,
          artifact, bashrc, lab, host, hist, src, enc, dec>>

clientVars == <<pc, session, sftp, result, exitStatus, floc, hist>>
remoteVars == <<rpc, mod, rstatus, artifact, bashrc, lab, host>>
encVars == <<src, enc, dec>>

(***************************************************************************)
(* Bounds of the model.                                                    *)
(***************************************************************************)
MaxLen == 3        \* longest script text given to the encoder
MaxRuns == 2       \* runs of the command against the same host

NModules == 7      \* the modules of the remote script, 0..6

(***************************************************************************)
(* Files.  open is TRUE when the last line has no terminating newline, so  *)
(* that the next >> continues that line instead of starting a new one.     *)
(***************************************************************************)
Absent == [present |-> FALSE, lines |-> <<>>, open |-> FALSE]
File(ls) == [present |-> TRUE, lines |-> ls, open |-> FALSE]
OpenFile(ls) == [present |-> TRUE, lines |-> ls, open |-> TRUE]

\* echo LINE > f
EchoTruncateKeeps(f, line) == File(Append(f.lines, line))

EchoTruncate(f, line) == File(<<line>>)

\* echo LINE >> f
EchoAppend(f, line) ==
    IF f.open /\ f.lines # <<>>
    THEN File([f.lines EXCEPT ![Len(f.lines)] = @ \o line])
    ELSE File(Append(f.lines, line))

RECURSIVE EchoAppendAll(_, _)
EchoAppendAll(f, ls) ==
    IF ls = <<>> THEN f ELSE EchoAppendAll(EchoAppend(f, Head(ls)), Tail(ls))

\* echo "$v" for a captured text v: $(...) drops the trailing newlines, echo
\* adds one, so an empty capture is written as one empty line
EchoText(v) == IF v = <<>> THEN << <<>> >> ELSE v

Num == <<"0", "1", "2", "3", "4", "5", "6">>

(***************************************************************************)
(* The lines the remote script writes.                                     *)
(***************************************************************************)
StartLine == <<"Starting script execution...">>
MarkerLine(i, ok) == <<"Module", Num[i + 1], IF ok THEN "success" ELSE "failed">>
SepLine == <<"---">>
CompletionLine == <<"Completion">>
ExportLine == <<"export ", "ROX_CENTRAL_ADDRESS=", "\"${ACS_ROUTE#https://}\" ; ",
                "ROX_CENTRAL_ADDRESS=", "\"${ROX_CENTRAL_ADDRESS#http://}\"">>

(***************************************************************************)
(* The seven modules.  An observation is what the module's check command   *)
(* produced on the host: out, the text the module echoes (a sequence of    *)
(* lines), and for the two HTTP modules code, the text after the last      *)
(* newline of curl's output (a sequence of pieces).                        *)
(***************************************************************************)
HttpModules == {3, 6}
IdModules == {1, 2, 4, 5}

Obs(out, code) == [out |-> out, code |-> code]

(***************************************************************************)
(* Output of the check commands.  A captured output is a flat text: a      *)
(* sequence of pieces, each a string or Newline.                           *)
(***************************************************************************)
Newline == "\n"

RECURSIVE Capture(_)
\* v=$(...): the output without its trailing newlines
Capture(t) ==
    IF t # <<>> /\ t[Len(t)] = Newline THEN Capture(SubSeq(t, 1, Len(t) - 1))
    ELSE t

\* position of the last newline of t, 0 when there is none
LastNewline(t) ==
    IF \E k \in 1..Len(t) : t[k] = Newline
    THEN CHOOSE k \in 1..Len(t) :
            t[k] = Newline /\ \A j \in (k + 1)..Len(t) : t[j] # Newline
    ELSE 0

\* ${t##*$'\n'}: t without its longest prefix that ends in a newline
AfterLastNewline(t) == SubSeq(t, LastNewline(t) + 1, Len(t))

\* ${t%$'\n'*}: t without its shortest suffix that starts with a newline
BeforeLastNewline(t) ==
    IF LastNewline(t) = 0 THEN t ELSE SubSeq(t, 1, LastNewline(t) - 1)

RECURSIVE TextLines(_, _)
\* the lines of the flat text t, cur being the line under construction
TextLines(t, cur) ==
    IF t = <<>> THEN <<cur>>
    ELSE IF Head(t) = Newline THEN <<cur>> \o TextLines(Tail(t), <<>>)
    ELSE TextLines(Tail(t), Append(cur, Head(t)))

\* a captured text as the sequence of its lines, none for the empty text
AsLines(t) == IF t = <<>> THEN <<>> ELSE TextLines(t, <<>>)

\* the host of a working lab: jq installed, the API reachable and answering
\* with bodies that end in a newline
NominalHost == [jq |-> "present", api |-> "up", body |-> "nl"]

Hosts ==
    [jq : {"present", "installable", "missing"},
     api : {"up", "down", "denied"},
     body : {"nl", "nonl", "multi", "empty"}]

\* if ! command -v jq; then sudo dnf|yum|apt-get install -y jq || true; fi
InstallJq(h) == IF h.jq = "installable" THEN [h EXCEPT !.jq = "present"] ELSE h

\* the HTTP status curl reports with -w "%{http_code}"
HttpStatus(up, h) ==
    CASE h.api = "down" -> "000"
      [] h.api = "denied" -> "401"
      [] OTHER -> IF up THEN "200" ELSE "503"

\* the response body of the report and compliance endpoints
HttpBody(up, h) ==
    LET c == CASE h.api = "denied" -> "unauthorized"
               [] OTHER -> IF up THEN "{}" ELSE "unavailable"
    IN CASE h.api = "down" -> <<>>
         [] h.body = "nl" -> <<c, Newline>>
         [] h.body = "nonl" -> <<c>>
         [] h.body = "multi" -> <<c, Newline, "more">>
         [] OTHER -> <<>>

\* what curl -s writes to stderr when it cannot connect: -s silences it
CurlDiagnostic(h) == <<>>

\* the -w format: "%{http_code}" in module 3, a newline and "%{http_code}"
\* in module 6
WriteOut(i, status) == IF i = 3 THEN <<status>> ELSE <<Newline, status>>

\* curl --insecure -s -w ... 2>&1 of modules 3 and 6
CurlHttp(i, up, h) ==
    CurlDiagnostic(h) \o HttpBody(up, h) \o WriteOut(i, HttpStatus(up, h))

DocWith == "{\"list\":[{\"name\":\"wanted\",\"id\":\"id\"}]}"
DocWithout == "{\"list\":[{\"name\":\"other\",\"id\":\"x\"}]}"
DocNoList == "{\"error\":\"credentials not found\"}"

\* the document the query of module i returns: curl -s of the policy and
\* report configuration lists, oc get taskrun -o json for module 5
Doc(i, up, h) ==
    CASE i # 5 /\ h.api = "down" -> CurlDiagnostic(h)
      [] i # 5 /\ h.api = "denied" -> <<DocNoList>>
      [] OTHER -> IF up THEN <<DocWith>> ELSE <<DocWithout>>

\* echo "$out" | jq -r '.<list>[] | select(...) | .<field>' 2>&1: what jq
\* prints, stderr included
Jq(i, h, input) ==
    CASE h.jq # "present" -> <<"bash: jq: command not found">>
      [] input = <<>> -> <<>>
      [] input = <<DocWith>> -> <<"id-", Num[i + 1]>>
      [] input = <<DocWithout>> -> <<>>
      [] input = <<DocNoList>> ->
            <<"jq: error (at <stdin>:1): Cannot iterate over null (null)">>
      [] OTHER -> <<"parse error: Invalid literal at line 1, column 1">>

\* what the check command of module i leaves in the variables the module
\* tests and echoes, when the thing it checks for is in place (up) and when
\* it is not, on the host h
Observe(i, up, h) ==
    IF i = 0
    THEN IF up THEN Obs(<< <<"frontend-", "7d9f", " Running">> >>, <<>>)
               ELSE Obs(<< <<"backend-", "5c2a", " Running">>,
                           <<"frontend-", "7d9f", " Pending">> >>, <<>>)
    ELSE IF i \in HttpModules
    THEN LET out == Capture(CurlHttp(i, up, h))
         IN Obs(AsLines(BeforeLastNewline(out)), AfterLastNewline(out))
    ELSE Obs(AsLines(Capture(Jq(i, h, Capture(Doc(i, up, h))))), <<>>)

\* grep '^frontend-' | grep -q 'Running'
GrepFrontendRunning(out) ==
    \E k \in 1..Len(out) :
        /\ out[k] # <<>>
        /\ out[k][1] = "frontend-"
        /\ \E j \in 1..Len(out[k]) : out[k][j] = " Running"

\* the success predicate of module i
Success(i, o) ==
    IF i = 0 THEN GrepFrontendRunning(o.out)
    ELSE IF i \in HttpModules THEN o.code = <<"200">>
    ELSE o.out # <<>>

HeaderLabel ==
    <<"", " (finished-1-policy id)", " (frontend-vuln-report id)", "",
      " (Alpine policy id)", " (succeeded taskruns)", "">>

HeaderLine(i, o) ==
    IF i \in HttpModules
    THEN <<"Module", Num[i + 1], " output (http ">> \o o.code \o <<"):">>
    ELSE <<"Module", Num[i + 1], " output", HeaderLabel[i + 1], ":">>

\* the lines module i appends, in the order the script echoes them
ModuleBlockHeaderFirst(i, o) ==
    <<HeaderLine(i, o), MarkerLine(i, Success(i, o))>> \o EchoText(o.out)
        \o <<SepLine>>

ModuleBlock(i, o) ==
    <<MarkerLine(i, Success(i, o)), HeaderLine(i, o)>> \o EchoText(o.out)
        \o <<SepLine>>

\* where the script goes after module i: bash runs without errexit, so the
\* outcome of the module does not matter
NextAfterModuleErrexit(i, ok) ==
    IF ~ok THEN "exited" ELSE IF i + 1 < NModules THEN "modules" ELSE "completion"

NextAfterModule(i, ok) ==
    IF i + 1 < NModules THEN "modules" ELSE "completion"

\* grep -q 'ROX_CENTRAL_ADDRESS=' ~/.bashrc 2>/dev/null
GrepRoxNever(f) == FALSE

GrepRox(f) ==
    /\ f.present
    /\ \E k \in 1..Len(f.lines) :
          \E j \in 1..Len(f.lines[k]) : f.lines[k][j] = "ROX_CENTRAL_ADDRESS="

\* the guarded append of the export line to ~/.bashrc
Bootstrap(f) == IF ~GrepRox(f) THEN EchoAppend(f, ExportLine) ELSE f

\* echo "Completion" >> output_file
WriteCompletionFirst(f) == File(<<CompletionLine>> \o f.lines)

WriteCompletion(f) == EchoAppend(f, CompletionLine)

(***************************************************************************)
(* The remote bash process, one action per step of the script.             *)
(***************************************************************************)
Running == {"touch", "truncate", "bootstrap", "modules", "completion"}

\* mkdir -p output_folder; touch output_file
RTouch ==
    /\ rpc = "touch"
    /\ artifact' = IF artifact.present THEN artifact ELSE File(<<>>)
    /\ rpc' = "truncate"
    /\ UNCHANGED <<mod, rstatus, bashrc, lab, host, clientVars, encVars>>

\* echo "Starting script execution..." > output_file
RTruncate ==
    /\ rpc = "truncate"
    /\ artifact' = EchoTruncate(artifact, StartLine)
    /\ rpc' = "bootstrap"
    /\ UNCHANGED <<mod, rstatus, bashrc, lab, host, clientVars, encVars>>

\* the guarded append to ~/.bashrc, then the installation of jq if missing
RBootstrap ==
    /\ rpc = "bootstrap"
    /\ bashrc' = Bootstrap(bashrc)
    /\ host' = InstallJq(host)
    /\ rpc' = "modules"
    /\ mod' = 0
    /\ UNCHANGED <<rstatus, artifact, lab, clientVars, encVars>>

\* module mod: run the check, append marker, header, payload, separator
RModule ==
    /\ rpc = "modules"
    /\ mod < NModules
    /\ LET o == Observe(mod, lab[mod], host)
       IN /\ artifact' = EchoAppendAll(artifact, ModuleBlock(mod, o))
          /\ rpc' = NextAfterModule(mod, Success(mod, o))
    /\ mod' = mod + 1
    /\ rstatus' = IF rpc' = "exited" THEN 1 ELSE rstatus
    /\ UNCHANGED <<bashrc, lab, host, clientVars, encVars>>

\* echo "Completion" >> output_file, the last command: the script exits 0
RCompletion ==
    /\ rpc = "completion"
    /\ artifact' = WriteCompletion(artifact)
    /\ rpc' = "exited"
    /\ rstatus' = 0
    /\ UNCHANGED <<mod, bashrc, lab, host, clientVars, encVars>>

\* the remote process is terminated from outside before it finishes
RKill ==
    /\ rpc \in Running
    /\ rpc' = "killed"
    /\ rstatus' = 137
    /\ UNCHANGED <<mod, artifact, bashrc, lab, host, clientVars, encVars>>

\* the lab changes between two runs: the frontend pods start or stop
LabChange ==
    /\ pc = "exited"
    /\ hist.n < MaxRuns
    /\ rpc \notin Running
    /\ lab' = [lab EXCEPT ![0] = ~@]
    /\ UNCHANGED <<rpc, mod, rstatus, artifact, bashrc, host, clientVars, encVars>>

(***************************************************************************)
(* The local process: main() and ssh_to_bastion().                         *)
(***************************************************************************)
NoResult == [kind |-> "none", lines |-> <<>>, at |-> "none"]
\* return output
TextResult(ls) == [kind |-> "text", lines |-> ls, at |-> "none"]
\* return f"Connection failed: {e}", e raised by stage
ErrorResult(stage) == [kind |-> "error", lines |-> <<>>, at |-> stage]

\* history of a run that has not started a stage yet
NewRun(n) ==
    [n |-> n, connected |-> FALSE, submitted |-> FALSE, waited |-> FALSE,
     sftpTried |-> FALSE, gets |-> 0, getRunning |-> FALSE, fetched |-> FALSE,
     wrote |-> FALSE, failed |-> "none", before |-> floc]

\* the statements of the try block, in order
StageAfterNoWait(stage) ==
    CASE stage = "connect" -> "exec"
      [] stage = "exec" -> "open_sftp"
      [] stage = "wait" -> "open_sftp"
      [] stage = "open_sftp" -> "get"
      [] stage = "get" -> "close"
      [] stage = "close" -> "read"
      [] stage = "read" -> "returned"

StageAfter(stage) ==
    CASE stage = "connect" -> "exec"
      [] stage = "exec" -> "wait"
      [] stage = "wait" -> "open_sftp"
      [] stage = "open_sftp" -> "get"
      [] stage = "get" -> "close"
      [] stage = "close" -> "read"
      [] stage = "read" -> "returned"

\* except Exception: every failure of a stage is caught
CatchesSshOnly(stage) == stage \notin {"get", "read"}

Catches(stage) == TRUE

\* where control goes from the except clause: the function returns
AfterExceptContinue(stage) == IF stage = "returned" THEN "returned" ELSE StageAfter(stage)

AfterExcept(stage) == "returned"

\* what main() leaves as the exit status of the process after printing
ExitStatusOf(res) == 0

\* stage raised an exception inside the try block; h is the history of the
\* run up to the failing call
Raise(stage, h) ==
    /\ hist' = [h EXCEPT !.failed = stage]
    /\ IF Catches(stage)
       THEN /\ pc' = AfterExcept(stage)
            /\ result' = ErrorResult(stage)
       ELSE /\ pc' = "raised"
            /\ UNCHANGED result

\* ssh_client.connect(...)
Connect ==
    /\ pc = "connect"
    /\ \/ /\ session' = "open"
          /\ pc' = StageAfter("connect")
          /\ hist' = [hist EXCEPT !.connected = TRUE]
          /\ UNCHANGED result
       \/ /\ Raise("connect", hist)
          /\ UNCHANGED session
    /\ UNCHANGED <<sftp, exitStatus, floc, remoteVars, encVars>>

\* ssh_client.exec_command(command): the remote bash process starts
Exec ==
    /\ pc = "exec"
    /\ \/ /\ pc' = StageAfter("exec")
          /\ hist' = [hist EXCEPT !.submitted = TRUE]
          /\ rpc' = "touch"
          /\ rstatus' = -1
          /\ mod' = 0
          /\ UNCHANGED result
       \/ /\ Raise("exec", hist)
          /\ UNCHANGED <<rpc, rstatus, mod>>
    /\ UNCHANGED <<session, sftp, exitStatus, floc, artifact, bashrc, lab, host, encVars>>

\* stdout.channel.recv_exit_status(): blocks until the remote process ended.
\* The wait fails when the connection is lost; the host then ends the
\* process the session had started.
Wait ==
    /\ pc = "wait"
    /\ \/ /\ rpc \notin Running
          /\ pc' = StageAfter("wait")
          /\ hist' = [hist EXCEPT !.waited = TRUE]
          /\ UNCHANGED <<result, rpc, rstatus>>
       \/ /\ Raise("wait", hist)
          /\ rpc' = IF rpc \in Running THEN "killed" ELSE rpc
          /\ rstatus' = IF rpc \in Running THEN 137 ELSE rstatus
    /\ UNCHANGED <<session, sftp, exitStatus, floc, mod, artifact, bashrc, lab, host, encVars>>

\* ssh_client.open_sftp()
OpenSftp ==
    /\ pc = "open_sftp"
    /\ \/ /\ sftp' = "open"
          /\ pc' = StageAfter("open_sftp")
          /\ hist' = [hist EXCEPT !.sftpTried = TRUE]
          /\ UNCHANGED result
       \/ /\ Raise("open_sftp", [hist EXCEPT !.sftpTried = TRUE])
          /\ UNCHANGED sftp
    /\ UNCHANGED <<session, exitStatus, floc, remoteVars, encVars>>

\* the local file after a completed sftp get: it is opened for writing, so
\* what it held before is gone
DownloadAppends(local, remote) == File(local.lines \o remote.lines)

Download(local, remote) == remote

\* sftp_client.get(output_file, "bastion_output_local.log"): the local file
\* is overwritten with the remote content; a failed transfer raises, and may
\* already have created or emptied the local file
Get ==
    /\ pc = "get"
    /\ \/ /\ artifact.present
          /\ floc' = Download(floc, artifact)
          /\ pc' = StageAfter("get")
          /\ hist' = [hist EXCEPT !.gets = @ + 1, !.fetched = TRUE, !.wrote = TRUE,
                                  !.getRunning = (rpc \in Running)]
          /\ UNCHANGED result
       \/ /\ \/ UNCHANGED floc
             \/ floc' = File(<<>>)
          /\ Raise("get", [hist EXCEPT !.gets = @ + 1,
                                       !.wrote = (floc' # floc),
                                       !.getRunning = (rpc \in Running)])
    /\ UNCHANGED <<session, sftp, exitStatus, remoteVars, encVars>>

\* sftp_client.close(); ssh_client.close()
Close ==
    /\ pc = "close"
    /\ sftp' = "closed"
    /\ session' = "closed"
    /\ pc' = StageAfter("close")
    /\ UNCHANGED <<result, exitStatus, floc, hist, remoteVars, encVars>>

\* open("bastion_output_local.log").read(); return output
Read ==
    /\ pc = "read"
    /\ \/ /\ floc.present
          /\ result' = TextResult(floc.lines)
          /\ pc' = StageAfter("read")
          /\ UNCHANGED hist
       \/ Raise("read", hist)
    /\ UNCHANGED <<session, sftp, exitStatus, floc, remoteVars, encVars>>

\* print(result); the process ends
MainExit ==
    /\ pc = "returned"
    /\ exitStatus' = ExitStatusOf(result)
    /\ pc' = "exited"
    /\ UNCHANGED <<session, sftp, result, floc, hist, remoteVars, encVars>>

\* the command is run again against the same host: a new process, a new
\* SSHClient; the local file and the remote files are those left behind
Main ==
    /\ pc = "exited"
    /\ hist.n < MaxRuns
    /\ rpc \notin Running
    /\ pc' = "connect"
    /\ session' = "none"
    /\ sftp' = "none"
    /\ result' = NoResult
    /\ exitStatus' = -1
    /\ hist' = NewRun(hist.n + 1)
    /\ rpc' = "idle"
    /\ rstatus' = -1
    /\ mod' = 0
    /\ UNCHANGED <<floc, artifact, bashrc, lab, host, encVars>>

Init ==
    /\ pc = "connect"
    /\ session = "none"
    /\ sftp = "none"
    /\ result = NoResult
    /\ exitStatus = -1
    /\ floc = Absent
    /\ rpc = "idle"
    /\ mod = 0
    /\ rstatus = -1
    /\ artifact = Absent
    /\ bashrc = Absent
    /\ lab \in [0..(NModules - 1) -> BOOLEAN]
    /\ host = NominalHost
    /\ hist = [NewRun(1) EXCEPT !.before = Absent]
    /\ src = <<>> /\ enc = <<>> /\ dec = <<>>

Next == Connect \/ Exec \/ Wait \/ OpenSftp \/ Get \/ Close \/ Read
            \/ MainExit \/ Main
            \/ RTouch \/ RTruncate \/ RBootstrap \/ RModule \/ RCompletion \/ RKill
            \/ LabChange

Spec == Init /\ [][Next]_vars

(***************************************************************************)
(* The script encoder of main() and the decoding the remote shell applies  *)
(* to the $'...' word.  A text is a sequence of one-character strings.     *)
(***************************************************************************)
BS == "\\"
SQ == "'"
LF == "\n"
CR == "\r"
Chars == {BS, SQ, LF, CR, "n", "x"}

RECURSIVE Replace(_, _, _)
\* str.replace(c, r) for a one-character c
Replace(s, c, r) ==
    IF s = <<>> THEN <<>>
    ELSE (IF Head(s) = c THEN r ELSE <<Head(s)>>) \o Replace(Tail(s), c, r)

\* escaped = command.replace("\\", "\\\\").replace("'", "\\'")
\*                   .replace("\n", "\\n").replace("\r", "\\r")
EscapeBackslashLast(s) ==
    Replace(Replace(Replace(Replace(s, SQ, <<BS, SQ>>), LF, <<BS, "n">>),
                    CR, <<BS, "r">>), BS, <<BS, BS>>)

EscapeNoQuote(s) ==
    Replace(Replace(Replace(s, BS, <<BS, BS>>), LF, <<BS, "n">>), CR, <<BS, "r">>)

Escape(s) ==
    Replace(Replace(Replace(Replace(s, BS, <<BS, BS>>), SQ, <<BS, SQ>>),
                    LF, <<BS, "n">>), CR, <<BS, "r">>)

\* full_command = "bash -c $" + "'" + escaped + "'"
FullCommand(s) == <<"bash -c $", SQ>> \o Escape(s) \o <<SQ>>

\* the character a backslash escape stands for inside $'...'
Unescape(c) ==
    CASE c = BS -> <<BS>>
      [] c = SQ -> <<SQ>>
      [] c = "n" -> <<LF>>
      [] c = "r" -> <<CR>>
      [] OTHER -> <<BS, c>>

RECURSIVE DecodeFrom(_, _)
\* the value of the word $'e[k..]': an unescaped quote ends the word, a
\* backslash before the closing quote leaves the word open
DecodeFrom(e, k) ==
    IF k > Len(e) THEN <<>>
    ELSE IF e[k] = SQ THEN <<>>
    ELSE IF e[k] = BS
         THEN IF k = Len(e) THEN <<"<open>">>
              ELSE Unescape(e[k + 1]) \o DecodeFrom(e, k + 2)
    ELSE <<e[k]>> \o DecodeFrom(e, k + 1)

Decode(e) == DecodeFrom(e, 1)

RECURSIVE TextsOfLen(_)
TextsOfLen(n) ==
    IF n = 0 THEN {<<>>}
    ELSE {Append(t, c) : t \in TextsOfLen(n - 1), c \in Chars}

Texts == UNION {TextsOfLen(n) : n \in 0..MaxLen}

\* main() escapes the script text
EncodeScript ==
    /\ pc = "escape"
    /\ enc' = Escape(src)
    /\ pc' = "decode"
    /\ UNCHANGED <<session, sftp, result, exitStatus, floc, hist, remoteVars,
                   src, dec>>

\* the remote shell reads the body of the $'...' word
DecodeScript ==
    /\ pc = "decode"
    /\ dec' = Decode(enc)
    /\ pc' = "decoded"
    /\ UNCHANGED <<session, sftp, result, exitStatus, floc, hist, remoteVars,
                   src, enc>>

InitEnc ==
    /\ pc = "escape"
    /\ session = "none"
    /\ sftp = "none"
    /\ result = NoResult
    /\ exitStatus = -1
    /\ floc = Absent
    /\ rpc = "idle"
    /\ mod = 0
    /\ rstatus = -1
    /\ artifact = Absent
    /\ bashrc = Absent
    /\ lab = [i \in 0..(NModules - 1) |-> FALSE]
    /\ host = NominalHost
    /\ hist = [NewRun(1) EXCEPT !.before = Absent]
    /\ src \in Texts
    /\ enc = <<>>
    /\ dec = <<>>

NextEnc == EncodeScript \/ DecodeScript

SpecEnc == InitEnc /\ [][NextEnc]_vars

\* C4: the remote decoding of the encoded body is the script text itself
RoundTrip == pc = "decoded" => dec = src

\* a text with a backslash before the letter n, and a quote, has gone through
RoundTripWitness ==
    /\ pc = "decoded"
    /\ Len(src) = MaxLen
    /\ \E k \in 1..(Len(src) - 1) : src[k] = BS /\ src[k + 1] = "n"
    /\ \E k \in 1..Len(src) : src[k] = SQ
    /\ dec = src
    /\ enc # src

(***************************************************************************)
(* Specification of the bootstrap: the same program started against a host *)
(* whose ~/.bashrc is absent, empty, ends with or without a newline, or    *)
(* already sets ROX_CENTRAL_ADDRESS.                                       *)
(***************************************************************************)
UserRoxLine == <<"ROX_CENTRAL_ADDRESS=", "central.example">>

BashrcInits ==
    {Absent, File(<<>>), File(<< <<"alias ll=ls">> >>),
     OpenFile(<< <<"alias ll=ls">> >>), File(<<UserRoxLine>>)}

InitBoot ==
    /\ pc = "connect"
    /\ session = "none"
    /\ sftp = "none"
    /\ result = NoResult
    /\ exitStatus = -1
    /\ floc = Absent
    /\ rpc = "idle"
    /\ mod = 0
    /\ rstatus = -1
    /\ artifact = Absent
    /\ bashrc \in BashrcInits
    /\ lab = [i \in 0..(NModules - 1) |-> i % 2 = 0]
    /\ host = NominalHost
    /\ hist = [NewRun(1) EXCEPT !.before = Absent]
    /\ src = <<>> /\ enc = <<>> /\ dec = <<>>

SpecBoot == InitBoot /\ [][Next]_vars

(***************************************************************************)
(* Operators the properties use.                                           *)
(***************************************************************************)
Concluded == pc \in {"returned", "exited", "raised"}

IsMarker(l) == Len(l) = 3 /\ l[1] = "Module" /\ l[3] \in {"success", "failed"}
Markers(ls) == SelectSeq(ls, IsMarker)

\* the marker lines of modules 0..n-1, one each, in increasing order
MarkersAre(ls, n) ==
    /\ Len(Markers(ls)) = n
    /\ \A k \in 1..n : Markers(ls)[k][2] = Num[k]

CountLine(ls, l) == Cardinality({k \in 1..Len(ls) : ls[k] = l})

\* occurrences of the export text in the line l
ExportIn(l) ==
    Cardinality({j \in 0..Len(l) :
        /\ j + Len(ExportLine) <= Len(l)
        /\ SubSeq(l, j + 1, j + Len(ExportLine)) = ExportLine})

RECURSIVE ExportCountIn(_)
ExportCountIn(ls) ==
    IF ls = <<>> THEN 0 ELSE ExportIn(Head(ls)) + ExportCountIn(Tail(ls))

\* occurrences of the export text in the file f
ExportCount(f) == ExportCountIn(f.lines)

HasUserRox(f) == \E k \in 1..Len(f.lines) : f.lines[k] = UserRoxLine


(***************************************************************************)
(* Properties.                                                             *)
(***************************************************************************)

\* C1: when a run of ssh_to_bastion has concluded, on whichever exit path,
\* no SSH session that the run opened is still open.
SessionClosedOnExit == Concluded => session # "open"

\* C2: the SFTP channel is opened and the file fetched only after the exit
\* status of the remote command was received; the file is fetched at most
\* once per run and never while the remote script is still running.
TransferAfterExit ==
    /\ (pc \in {"open_sftp", "get", "close", "read"} \/ hist.sftpTried
            \/ sftp # "none" \/ hist.gets > 0)
          => (hist.waited /\ rpc \notin Running)
    /\ hist.gets <= 1
    /\ ~hist.getRunning

\* a run fetched the artifact once, after the script had run to its end
TransferAfterExitWitness ==
    /\ pc = "returned"
    /\ hist.gets = 1
    /\ hist.fetched
    /\ rpc = "exited"
    /\ result.kind = "text"

\* C3: whatever modules fail, the artifact holds exactly one marker line for
\* each module the script has passed, in increasing order of the module
\* index, and the script ends only after all seven modules and Completion.
AllMarkersInOrder ==
    /\ rpc \in {"modules", "completion", "exited"} => MarkersAre(artifact.lines, mod)
    /\ rpc \in {"completion", "exited"} => mod = NModules
    /\ rpc = "exited" => rstatus = 0

\* the script ended though modules 1 and 4 failed and module 6 succeeded
AllMarkersInOrderWitness ==
    /\ rpc = "exited"
    /\ Markers(artifact.lines)[2] = MarkerLine(1, FALSE)
    /\ Markers(artifact.lines)[5] = MarkerLine(4, FALSE)
    /\ Markers(artifact.lines)[7] = MarkerLine(6, TRUE)

\* C5: a run whose connect failed has submitted no command, started no
\* remote process and left the local file as it was; a run whose command
\* submission failed has opened no transfer channel and attempted no fetch.
FailureAbortsRun ==
    /\ hist.failed = "connect" =>
          /\ ~hist.submitted
          /\ rpc = "idle"
          /\ session = "none"
          /\ floc = hist.before
          /\ ~hist.wrote
    /\ hist.failed = "exec" =>
          /\ ~hist.sftpTried
          /\ sftp = "none"
          /\ hist.gets = 0
          /\ rpc = "idle"
          /\ floc = hist.before

\* the second run failed to connect; the local file of the first run stays
FailureAbortsRunWitness ==
    /\ pc = "exited"
    /\ hist.n = 2
    /\ hist.failed = "connect"
    /\ floc.present
    /\ artifact.present

\* C6: no failure of a stage leaves ssh_to_bastion as an exception: the run
\* returns the error string made from that failure.
NoFailurePropagates ==
    /\ pc # "raised"
    /\ hist.failed # "none" =>
          /\ pc \in {"returned", "exited"}
          /\ result = ErrorResult(hist.failed)

\* the transfer failed because the remote file does not exist
NoFailurePropagatesWitness ==
    /\ pc = "returned"
    /\ hist.failed = "get"
    /\ ~artifact.present
    /\ result.kind = "error"

\* C7: the process ends with a non-zero exit status when connection,
\* submission or transfer failed, and with 0 when the run completed.
ExitStatusTellsFailure ==
    pc = "exited" =>
        /\ hist.failed \in {"connect", "exec", "wait", "open_sftp", "get"}
              => exitStatus # 0
        /\ hist.failed = "none" => exitStatus = 0

\* C8: a run returns artifact text only if, in that run, the session
\* connected, the command was submitted, the script ran through Completion
\* and the file that script wrote was the one transferred.
NoPartialSuccess ==
    result.kind = "text" =>
        /\ hist.connected
        /\ hist.submitted
        /\ rpc = "exited"
        /\ hist.fetched
        /\ result.lines = artifact.lines
        /\ result.lines # <<>>
        /\ result.lines[Len(result.lines)] = CompletionLine

\* C9: ~/.bashrc never holds the export text more than once, and once a run
\* has passed the bootstrap step it holds it exactly once, unless the file
\* set ROX_CENTRAL_ADDRESS before, in which case nothing is added.
BootstrapIdempotent ==
    /\ ExportCount(bashrc) <= 1
    /\ rpc \in {"modules", "completion", "exited"} =>
          /\ bashrc.present
          /\ ExportCount(bashrc) = IF HasUserRox(bashrc) THEN 0 ELSE 1

\* the second run has passed the bootstrap step of a file that had one
\* unterminated line at the start
BootstrapIdempotentWitness ==
    /\ hist.n = 2
    /\ rpc = "exited"
    /\ ExportCount(bashrc) = 1
    /\ Len(bashrc.lines) = 1
    /\ bashrc.lines[1][1] = "alias ll=ls"

\* C10: a run in which every stage succeeded (connection, submission, the
\* wait, the transfer up to reading the local copy back) and the script ran
\* to its end returns text, whose last line is the only Completion line and
\* comes after the marker lines of all seven modules.
SuccessEndsWithCompletion ==
    (pc \in {"returned", "exited"} /\ hist.failed = "none" /\ rpc = "exited") =>
        /\ result.kind = "text"
        /\ result.lines # <<>>
        /\ result.lines[Len(result.lines)] = CompletionLine
        /\ CountLine(result.lines, CompletionLine) = 1
        /\ MarkersAre(result.lines, NModules)
        /\ CountLine(result.lines, SepLine) = NModules

\* a complete run returned its artifact
SuccessEndsWithCompletionWitness ==
    /\ pc = "exited"
    /\ hist.failed = "none"
    /\ rpc = "exited"
    /\ result.kind = "text"
    /\ hist.n = 2


RECURSIVE BlocksFrom(_, _)
\* the blocks of modules i..6 of a run that sees the lab l
BlocksFrom(i, l) ==
    IF i >= NModules THEN <<>>
    ELSE ModuleBlock(i, Observe(i, l[i], host)) \o BlocksFrom(i + 1, l)

\* the artifact one complete run writes when the lab is l
OneRunArtifact(l) == <<StartLine>> \o BlocksFrom(0, l) \o <<CompletionLine>>

\* C11: the script truncates the artifact before any module appends: from
\* the truncation on the artifact starts with the start line of this run
\* and holds the blocks of this run only, and when the script has ended it
\* is the output of this one run, with one block per module and one
\* Completion line, whatever earlier runs had left in the file.
LatestRunOnly ==
    /\ rpc \in {"bootstrap", "modules", "completion", "exited"} =>
          /\ artifact.lines # <<>>
          /\ artifact.lines[1] = StartLine
          /\ CountLine(artifact.lines, StartLine) = 1
          /\ Len(Markers(artifact.lines)) = IF rpc = "bootstrap" THEN 0 ELSE mod
    /\ rpc = "exited" =>
          /\ CountLine(artifact.lines, CompletionLine) = 1
          /\ CountLine(artifact.lines, SepLine) = NModules
          /\ MarkersAre(artifact.lines, NModules)
    /\ (rpc = "exited" /\ pc # "exited") => artifact.lines = OneRunArtifact(lab)

\* the second run has ended on a host where the first run had left an
\* artifact with other content
LatestRunOnlyWitness ==
    /\ hist.n = 2
    /\ rpc = "exited"
    /\ pc = "open_sftp"
    /\ floc.present
    /\ floc.lines # <<>>
    /\ floc.lines # artifact.lines


(***************************************************************************)
(* Specification of the modules: the same program against every host of    *)
(* Hosts, with a lab where every check finds what it looks for or none     *)
(* does.                                                                    *)
(***************************************************************************)
InitMod ==
    /\ pc = "connect"
    /\ session = "none"
    /\ sftp = "none"
    /\ result = NoResult
    /\ exitStatus = -1
    /\ floc = Absent
    /\ rpc = "idle"
    /\ mod = 0
    /\ rstatus = -1
    /\ artifact = Absent
    /\ bashrc = Absent
    /\ lab \in {[i \in 0..(NModules - 1) |-> b] : b \in BOOLEAN}
    /\ host \in Hosts
    /\ hist = [NewRun(1) EXCEPT !.before = Absent]
    /\ src = <<>> /\ enc = <<>> /\ dec = <<>>

SpecMod == InitMod /\ [][Next]_vars


(***************************************************************************)
(* Reading the artifact back: the block of module i.                       *)
(***************************************************************************)
\* index of the marker line of module i in ls
MarkerIdx(ls, i) ==
    CHOOSE k \in 1..Len(ls) : IsMarker(ls[k]) /\ ls[k][2] = Num[i + 1]

\* index of the first separator line of ls at or after k, 0 if none
SepFrom(ls, k) ==
    IF \E j \in k..Len(ls) : ls[j] = SepLine
    THEN CHOOSE j \in k..Len(ls) :
            ls[j] = SepLine /\ \A q \in k..(j - 1) : ls[q] # SepLine
    ELSE 0

BlockMarker(ls, i) == ls[MarkerIdx(ls, i)]
BlockHeader(ls, i) == ls[MarkerIdx(ls, i) + 1]
BlockPayload(ls, i) ==
    SubSeq(ls, MarkerIdx(ls, i) + 2, SepFrom(ls, MarkerIdx(ls, i)) - 1)

RECURSIVE DropEmptyTail(_)
\* ls without its trailing empty lines
DropEmptyTail(ls) ==
    IF ls # <<>> /\ ls[Len(ls)] = <<>> THEN DropEmptyTail(SubSeq(ls, 1, Len(ls) - 1))
    ELSE ls

\* the header line "Module i output:"
PlainHeader(i) == <<"Module", Num[i + 1], " output", "", ":">>

\* a header line of module i: "Module i output", a label or the HTTP code,
\* and a colon
IsHeader(l, i) ==
    /\ Len(l) >= 4
    /\ l[1] = "Module"
    /\ l[2] = Num[i + 1]
    /\ l[3] \in {" output", " output (http "}
    /\ l[Len(l)] \in {":", "):"}

RECURSIVE BlocksThenCompletion(_, _, _)
\* ls is the blocks of modules i..6, each a marker line, a header line, at
\* least one payload line and a separator, followed by the Completion line
\* and nothing else; plain asks for the header "Module i output:"
BlocksThenCompletion(ls, i, plain) ==
    IF i >= NModules THEN ls = <<CompletionLine>>
    ELSE /\ Len(ls) >= 4
         /\ IsMarker(ls[1])
         /\ ls[1][2] = Num[i + 1]
         /\ IF plain THEN ls[2] = PlainHeader(i) ELSE IsHeader(ls[2], i)
         /\ SepFrom(ls, 3) >= 4
         /\ BlocksThenCompletion(SubSeq(ls, SepFrom(ls, 3) + 1, Len(ls)), i + 1, plain)

\* the error text curl prints when it cannot reach the API
CurlErrorText == <<"curl: (7) Failed to connect to the API">>

ApiModules == {1, 2, 3, 4, 6}

\* C12: with the API unreachable the artifact of a complete run holds the
\* blocks of all seven modules, modules 1, 2, 3, 4 and 6 are marked failed
\* and the output of each of them is the error text of curl, with and
\* without jq on the host.
ApiDownMarkedFailed ==
    (host.api = "down" /\ rpc = "exited") =>
        /\ MarkersAre(artifact.lines, NModules)
        /\ \A i \in ApiModules :
              /\ BlockMarker(artifact.lines, i) = MarkerLine(i, FALSE)
              /\ BlockPayload(artifact.lines, i) = <<CurlErrorText>>

HttpMarkerIffStatus200 ==
    rpc = "exited" =>
        \A i \in HttpModules :
            /\ BlockMarker(artifact.lines, i)
                  = MarkerLine(i, HttpStatus(lab[i], host) = "200")
            /\ BlockHeader(artifact.lines, i)
                  = <<"Module", Num[i + 1], " output (http ",
                      HttpStatus(lab[i], host), "):">>
            /\ DropEmptyTail(BlockPayload(artifact.lines, i))
                  = DropEmptyTail(AsLines(HttpBody(lab[i], host)))

\* C15: modules 1, 2, 4 and 5 write "success" exactly when the queried
\* document holds an entry the filter selects; with a failed query, a
\* document without the list, or jq missing or failing, they write "failed".
IdMarkerIffEntry ==
    rpc = "exited" =>
        \A i \in IdModules :
            BlockMarker(artifact.lines, i)
              = MarkerLine(i, /\ Doc(i, lab[i], host) = <<DocWith>>
                              /\ host.jq = "present")


RECURSIVE EscapedFrom(_, _)
\* from position k on, e holds no raw newline, carriage return or quote, and
\* every backslash starts one of the escapes \\ \' \n \r
EscapedFrom(e, k) ==
    IF k > Len(e) THEN TRUE
    ELSE IF e[k] \in {LF, CR, SQ} THEN FALSE
    ELSE IF e[k] = BS
         THEN /\ k < Len(e)
              /\ e[k + 1] \in {BS, SQ, "n", "r"}
              /\ EscapedFrom(e, k + 2)
    ELSE EscapedFrom(e, k + 1)

RECURSIVE ClosingQuote(_, _)
\* position of the quote that ends the $'...' word of c whose body starts
\* at k, 0 if the word is not closed
ClosingQuote(c, k) ==
    IF k > Len(c) THEN 0
    ELSE IF c[k] = SQ THEN k
    ELSE IF c[k] = BS THEN ClosingQuote(c, k + 2)
    ELSE ClosingQuote(c, k + 1)

\* C16: the encoded body holds no raw newline or carriage return, each of
\* its quotes and backslashes is part of a two-character escape, and the
\* $'...' word of the command ends at the final quote and nowhere before.
OneShellToken ==
    pc \in {"decode", "decoded"} =>
        /\ EscapedFrom(enc, 1)
        /\ FullCommand(src) = <<"bash -c $", SQ>> \o enc \o <<SQ>>
        /\ ClosingQuote(FullCommand(src), 3) = Len(FullCommand(src))
        /\ \A k \in 1..Len(FullCommand(src)) : FullCommand(src)[k] \notin {LF, CR}

\* a text with a quote, a backslash and a newline has been encoded
OneShellTokenWitness ==
    /\ pc = "decoded"
    /\ \E k \in 1..Len(src) : src[k] = SQ
    /\ \E k \in 1..Len(src) : src[k] = BS
    /\ \E k \in 1..Len(src) : src[k] = LF
    /\ Len(enc) = 2 * Len(src)

\* C17: text returned by a run is the remote artifact as the transfer of
\* this same run fetched it, the local file holding that content and no
\* other; a run without a completed transfer returns an error string.
FreshTextOnly ==
    /\ result.kind = "text" =>
          /\ hist.fetched
          /\ hist.gets = 1
          /\ result.lines = artifact.lines
          /\ floc = artifact
    /\ (pc \in {"returned", "exited"} /\ ~hist.fetched) => result.kind = "error"

\* the second run returned text while the local file held the other
\* content of the first run when it started
FreshTextOnlyWitness ==
    /\ result.kind = "text"
    /\ hist.n = 2
    /\ hist.before.present
    /\ hist.before.lines # <<>>
    /\ hist.before.lines # result.lines

====
